---- MODULE Spec2Model ----
(***************************************************************************)
(* A model of transcribe_audio (src/transcribe.py): one invocation that    *)
(* validates its arguments, uploads the audio file with one POST, and then *)
(* polls the job's status with GET requests until a terminal status, a     *)
(* failure, or the attempt budget is spent.  The remote service and the    *)
(* file system are the environment: every reply the service can give is    *)
(* chosen nondeterministically.  SpecMain runs main of transcribe.py around *)
(* that call; SpecTranslate runs main of src/translate.py.                 *)
(***************************************************************************)
EXTENDS Integers, Sequences, FiniteSets, TLC

VARIABLES
    audio_path,       \* argument: path of the audio file
    language,         \* argument: target language name
    access_token,     \* argument: bearer token
    pc,               \* position in transcribe_audio
    lang_code,        \* local: language_codes[language]
    audio_file,       \* the upload file handle: "unopened", "open", "closed"
    job_id,           \* local: the job identifier of the submit reply
    attempt,          \* local: polling attempt counter
    result,           \* the value transcribe_audio returned (Unbound before)
    posts,            \* number of requests.post calls issued
    gets,             \* number of requests.get calls issued
    slept,            \* total time passed in time.sleep
    response,         \* outcome of the requests.post call
    status_response,  \* outcome of the latest requests.get call
    nonTerminal,      \* number of status replies that kept the job polling
    \* main of transcribe.py
    env_token,        \* os.environ.get("SUNBIRD_API_TOKEN")
    flag_token,       \* what parsing the command line gives for --token
    main_token,       \* main's local access_token
    consulted,        \* the credential sources read so far, in order
    exit_status,      \* "running", or the status the process exited with
    printed,          \* the transcription main printed
    \* main of translate.py
    translations,     \* the phrase table: language -> language -> phrase entries
    tpc,              \* position in translate's main
    tgt_index,        \* reverse-table loop: index of tgt_lang
    phrase_index,     \* reverse-table loop: index of the phrase entry
    source_language,  \* the source language of the latest round
    target_language,  \* the target language of the latest round
    text_to_translate,\* the text of the latest round
    output            \* what the latest round printed

cliVars == <<env_token, flag_token, main_token, consulted, exit_status, printed>>

trVars == <<translations, tpc, tgt_index, phrase_index, source_language,
            target_language, text_to_translate, output>>

vars == <<audio_path, language, access_token, pc, lang_code, audio_file, job_id,
          attempt, result, posts, gets, slept, response, status_response,
          nonTerminal, cliVars, trVars>>

(***************************************************************************)
(* Python values: None, str, dict (string keys) and the empty list.        *)
(***************************************************************************)
PyNone == [t |-> "NoneType"]

PyStr(s) == [t |-> "str", s |-> s]

PyDict(d) == [t |-> "dict", d |-> d]

PyList == [t |-> "list"]

Unbound == [t |-> "unbound"]

EmptyDict == PyDict([k \in {} |-> PyNone])

\* Python truth value, as `not job_id` takes it.
TruthyNotNone(v) == v.t # "NoneType"

Truthy(v) ==
    CASE v.t = "NoneType" -> FALSE
      [] v.t = "str" -> v.s # ""
      [] v.t = "dict" -> DOMAIN v.d # {}
      [] v.t = "list" -> FALSE

\* dict.get(key, default)
DictGet(v, key, default) == IF key \in DOMAIN v.d THEN v.d[key] ELSE default

\* str(e) of the AttributeError raised by v.get(...) on a value that is no dict.
AttributeErrorMsg(v) == "'" \o v.t \o "' object has no attribute 'get'"

\* How an f-string renders a value.
PyFormat(v) ==
    CASE v.t = "str" -> v.s
      [] v.t = "NoneType" -> "None"
      [] v.t = "list" -> "[]"

(***************************************************************************)
(* Program constants.                                                      *)
(***************************************************************************)
language_codes ==
    [English |-> "eng", Luganda |-> "lug", Runyankole |-> "nyn",
     Ateso |-> "teo", Lugbara |-> "lgg", Acholi |-> "ach"]

max_attempts == 30

SleepSeconds == 5

HTTP_OK == 200

NoTranscription == "No transcription available"

UnknownError == "Unknown error"

(***************************************************************************)
(* The values transcribe_audio returns.                                    *)
(***************************************************************************)
UnsupportedLanguageError(l) == "Error: Language '" \o l \o "' is not supported."

FileMissingError(p) == "Error: File '" \o p \o "' does not exist."

ApiRequestFailed(code, text) ==
    "Error: API request failed with status code " \o ToString(code) \o ": " \o text

JobIdMissing == "Error: Failed to get job ID from API response."

PollError(text) == "Error checking job status: " \o text

JobFailed(reason) == "Error: Transcription job failed. Reason: " \o PyFormat(reason)

TimedOut == "Error: Transcription timed out. Please try again later."

CaughtExceptionNoCause(msg) == "Error during transcription"

CaughtException(msg) == "Error during transcription: " \o msg

(***************************************************************************)
(* The environment: arguments, the file system, and the service's replies. *)
(***************************************************************************)
LanguageNames == DOMAIN language_codes \cup {"Swahili", "luganda", ""}

AudioPaths == {"hello.mp3", "locked.mp3", "missing.mp3"}

ExistingPaths == {"hello.mp3", "locked.mp3", "long.mp3"}

ReadablePaths == {"hello.mp3", "long.mp3"}

AccessTokens == {"token-1", ""}

OsPathExistsAlways(p) == TRUE

OsPathExists(p) == p \in ExistingPaths

\* str(e) of the OSError open() raises.
OpenError(p) ==
    IF p \in ExistingPaths
    THEN "[Errno 13] Permission denied: '" \o p \o "'"
    ELSE "[Errno 2] No such file or directory: '" \o p \o "'"

Response(code, text) == [t |-> "response", status_code |-> code, text |-> text]

Raised(msg) == [t |-> "raised", msg |-> msg]

NoCall == [t |-> "nocall"]

StatusCodes == {200, 401, 404, 500}

NetworkErrors == {"Connection refused", "Read timed out"}

SubmitBodies ==
    { "{\"id\": \"job-1\"}", "{\"id\": \"\"}", "{\"id\": null}", "{}", "[]",
      "Unauthorized", "" }

StatusBodies ==
    { "{\"status\": \"completed\", \"results\": {\"transcription\": \"hello\"}}",
      "{\"status\": \"completed\", \"results\": {\"transcription\": \"Oli otya\"}}",
      "{\"status\": \"completed\", \"results\": {\"transcription\": \"\"}}",
      "{\"status\": \"completed\", \"results\": {\"transcription\": null}}",
      "{\"status\": \"completed\", \"results\": {}}",
      "{\"status\": \"completed\", \"results\": null}",
      "{\"status\": \"completed\"}",
      "{\"status\": \"failed\", \"error\": \"Audio too long\"}",
      "{\"status\": \"failed\", \"error\": \"\"}",
      "{\"status\": \"failed\", \"error\": null}",
      "{\"status\": \"failed\"}",
      "{\"status\": \"processing\"}",
      "{\"status\": \"pending\"}",
      "{\"status\": \"Completed\"}",
      "{}", "[]", "Bad Gateway" }

SubmitReplies ==
    {Response(c, b) : c \in StatusCodes, b \in SubmitBodies}
        \cup {Raised(m) : m \in NetworkErrors}

StatusReplies ==
    {Response(c, b) : c \in StatusCodes, b \in StatusBodies}
        \cup {Raised(m) : m \in NetworkErrors}

JSONDecodeError == [t |-> "JSONDecodeError",
                    msg |-> "Expecting value: line 1 column 1 (char 0)"]

Completed(results) == PyDict([status |-> PyStr("completed"), results |-> results])

\* response.json(): the value a reply body parses to.
ResponseJson(text) ==
    CASE text = "{\"id\": \"job-1\"}" -> PyDict([id |-> PyStr("job-1")])
      [] text = "{\"id\": \"\"}" -> PyDict([id |-> PyStr("")])
      [] text = "{\"id\": null}" -> PyDict([id |-> PyNone])
      [] text = "{}" -> EmptyDict
      [] text = "[]" -> PyList
      [] text = "{\"status\": \"completed\", \"results\": {\"transcription\": \"hello\"}}"
            -> Completed(PyDict([transcription |-> PyStr("hello")]))
      [] text = "{\"status\": \"completed\", \"results\": {\"transcription\": \"Oli otya\"}}"
            -> Completed(PyDict([transcription |-> PyStr("Oli otya")]))
      [] text = "{\"status\": \"completed\", \"results\": {\"transcription\": \"\"}}"
            -> Completed(PyDict([transcription |-> PyStr("")]))
      [] text = "{\"status\": \"completed\", \"results\": {\"transcription\": null}}"
            -> Completed(PyDict([transcription |-> PyNone]))
      [] text = "{\"status\": \"completed\", \"results\": {}}" -> Completed(EmptyDict)
      [] text = "{\"status\": \"completed\", \"results\": null}" -> Completed(PyNone)
      [] text = "{\"status\": \"completed\"}" -> PyDict([status |-> PyStr("completed")])
      [] text = "{\"status\": \"failed\", \"error\": \"Audio too long\"}"
            -> PyDict([status |-> PyStr("failed"), error |-> PyStr("Audio too long")])
      [] text = "{\"status\": \"failed\", \"error\": \"\"}"
            -> PyDict([status |-> PyStr("failed"), error |-> PyStr("")])
      [] text = "{\"status\": \"failed\", \"error\": null}"
            -> PyDict([status |-> PyStr("failed"), error |-> PyNone])
      [] text = "{\"status\": \"failed\"}" -> PyDict([status |-> PyStr("failed")])
      [] text = "{\"status\": \"processing\"}" -> PyDict([status |-> PyStr("processing")])
      [] text = "{\"status\": \"pending\"}" -> PyDict([status |-> PyStr("pending")])
      [] text = "{\"status\": \"Completed\"}" -> PyDict([status |-> PyStr("Completed")])
      [] OTHER -> JSONDecodeError

(***************************************************************************)
(* How a statement ends: it returns a value, raises, or falls through.     *)
(***************************************************************************)
Return(v) == [k |-> "return", v |-> v]

Raise(msg) == [k |-> "raise", msg |-> msg]

Continue(v) == [k |-> "continue", v |-> v]

\* Lines 88-96, with the status code of the submit reply not looked at.
SubmitOutcomeIgnoringStatus(reply) ==
    IF reply.t = "raised" THEN Raise(reply.msg)
    ELSE LET response_data == ResponseJson(reply.text) IN
         IF response_data.t = "JSONDecodeError" THEN Raise(response_data.msg)
         ELSE IF response_data.t # "dict" THEN Raise(AttributeErrorMsg(response_data))
         ELSE LET id == DictGet(response_data, "id", PyNone) IN
              IF ~Truthy(id) THEN Return(PyStr(JobIdMissing)) ELSE Continue(id)

(***************************************************************************)
(* Lines 88-96: what transcribe_audio makes of the submit reply.           *)
(***************************************************************************)
SubmitOutcome(reply) ==
    IF reply.t = "raised" THEN Raise(reply.msg)
    ELSE IF reply.status_code # HTTP_OK
    THEN Return(PyStr(ApiRequestFailed(reply.status_code, reply.text)))
    ELSE LET response_data == ResponseJson(reply.text) IN
         IF response_data.t = "JSONDecodeError" THEN Raise(response_data.msg)
         ELSE IF response_data.t # "dict" THEN Raise(AttributeErrorMsg(response_data))
         ELSE LET id == DictGet(response_data, "id", PyNone) IN
              IF ~Truthy(id) THEN Return(PyStr(JobIdMissing)) ELSE Continue(id)

(***************************************************************************)
(* Lines 116-129: what transcribe_audio makes of a status reply.           *)
(***************************************************************************)
TranscriptOrPlaceholder(status_data) ==
    LET results == DictGet(status_data, "results", EmptyDict) IN
    IF results.t # "dict" THEN Raise(AttributeErrorMsg(results))
    ELSE LET transcript == DictGet(results, "transcription", PyNone) IN
         Return(IF Truthy(transcript) THEN transcript ELSE PyStr(NoTranscription))

TranscriptNoDefault(status_data) ==
    LET results == DictGet(status_data, "results", EmptyDict) IN
    IF results.t # "dict" THEN Raise(AttributeErrorMsg(results))
    ELSE Return(DictGet(results, "transcription", PyNone))

Transcript(status_data) ==
    LET results == DictGet(status_data, "results", EmptyDict) IN
    IF results.t # "dict" THEN Raise(AttributeErrorMsg(results))
    ELSE Return(DictGet(results, "transcription", PyStr(NoTranscription)))

FailureReasonMessage(status_data) == DictGet(status_data, "message", PyStr(UnknownError))

FailureReason(status_data) == DictGet(status_data, "error", PyStr(UnknownError))

PollFailedServerOnly(reply) == reply.status_code >= 500

PollFailed(reply) == reply.status_code # HTTP_OK

PollOutcome(reply) ==
    IF reply.t = "raised" THEN Raise(reply.msg)
    ELSE IF PollFailed(reply) THEN Return(PyStr(PollError(reply.text)))
    ELSE LET status_data == ResponseJson(reply.text) IN
         IF status_data.t = "JSONDecodeError" THEN Raise(status_data.msg)
         ELSE IF status_data.t # "dict" THEN Raise(AttributeErrorMsg(status_data))
         ELSE LET status == DictGet(status_data, "status", PyNone) IN
              IF status = PyStr("completed") THEN Transcript(status_data)
              ELSE IF status = PyStr("failed")
              THEN Return(PyStr(JobFailed(FailureReason(status_data))))
              ELSE Continue(status)

LoopConditionInclusive(a) == a <= max_attempts

LoopCondition(a) == a < max_attempts

(***************************************************************************)
(* The state after construction: the call has its arguments and has done   *)
(* nothing yet.                                                            *)
(***************************************************************************)
\* transcribe_audio called directly: main of transcribe.py is not running.
CliIdle ==
    /\ env_token = PyNone
    /\ flag_token = PyNone
    /\ main_token = PyNone
    /\ consulted = <<>>
    /\ exit_status = "running"
    /\ printed = Unbound

\* translate.py is not running.
TranslatorIdle ==
    /\ translations = <<>>
    /\ tpc = "idle"
    /\ tgt_index = 0
    /\ phrase_index = 0
    /\ source_language = ""
    /\ target_language = ""
    /\ text_to_translate = ""
    /\ output = ""

Init ==
    /\ CliIdle
    /\ TranslatorIdle
    /\ audio_path \in AudioPaths
    /\ language \in LanguageNames
    /\ access_token \in AccessTokens
    /\ pc = "check_language"
    /\ lang_code = Unbound
    /\ audio_file = "unopened"
    /\ job_id = Unbound
    /\ attempt = 0
    /\ result = Unbound
    /\ posts = 0
    /\ gets = 0
    /\ slept = 0
    /\ response = NoCall
    /\ status_response = NoCall
    /\ nonTerminal = 0

\* Leaving the function: the `with` block closes the handle it opened.
Leave(value) ==
    /\ result' = value
    /\ pc' = "done"
    /\ audio_file' = IF audio_file = "open" THEN "closed" ELSE audio_file

\* Lines 133-134, with the exception swallowed: the function returns None.
ExceptSwallowing(msg) == Leave(PyNone)

\* Lines 133-134: the except clause turns the exception into a returned value.
Except(msg) == Leave(PyStr(CaughtException(msg)))

\* Lines 51-54, with a mapping that has no entry for English.
CheckLanguageWithoutEnglish ==
    /\ pc = "check_language"
    /\ IF language \notin DOMAIN language_codes \ {"English"}
       THEN /\ Leave(PyStr(UnsupportedLanguageError(language)))
            /\ UNCHANGED lang_code
       ELSE /\ lang_code' = PyStr(language_codes[language])
            /\ pc' = "check_file"
            /\ UNCHANGED <<audio_file, result>>
    /\ UNCHANGED <<audio_path, language, access_token, job_id, attempt,
                   posts, gets, slept, response, status_response, nonTerminal>>
    /\ UNCHANGED <<cliVars, trVars>>

\* Lines 51-54, with the membership test replaced by a default code.
CheckLanguageDefaulting ==
    /\ pc = "check_language"
    /\ lang_code' = IF language \in DOMAIN language_codes
                    THEN PyStr(language_codes[language]) ELSE PyStr("eng")
    /\ pc' = "check_file"
    /\ UNCHANGED <<audio_path, language, access_token, audio_file, job_id, attempt,
                   result, posts, gets, slept, response, status_response, nonTerminal>>
    /\ UNCHANGED <<cliVars, trVars>>

\* Lines 51-54
CheckLanguage ==
    /\ pc = "check_language"
    /\ IF language \notin DOMAIN language_codes
       THEN /\ Leave(PyStr(UnsupportedLanguageError(language)))
            /\ UNCHANGED lang_code
       ELSE /\ lang_code' = PyStr(language_codes[language])
            /\ pc' = "check_file"
            /\ UNCHANGED <<audio_file, result>>
    /\ UNCHANGED <<audio_path, language, access_token, job_id, attempt,
                   posts, gets, slept, response, status_response, nonTerminal>>
    /\ UNCHANGED <<cliVars, trVars>>

\* Lines 66-67
CheckFile ==
    /\ pc = "check_file"
    /\ IF ~OsPathExists(audio_path)
       THEN Leave(PyStr(FileMissingError(audio_path)))
       ELSE /\ pc' = "open"
            /\ UNCHANGED <<audio_file, result>>
    /\ UNCHANGED <<audio_path, language, access_token, lang_code, job_id, attempt,
                   posts, gets, slept, response, status_response, nonTerminal>>
    /\ UNCHANGED <<cliVars, trVars>>

\* Line 70
OpenFile ==
    /\ pc = "open"
    /\ IF audio_path \in ReadablePaths
       THEN /\ audio_file' = "open"
            /\ pc' = "submit"
            /\ UNCHANGED result
       ELSE Except(OpenError(audio_path))
    /\ UNCHANGED <<audio_path, language, access_token, lang_code, job_id, attempt,
                   posts, gets, slept, response, status_response, nonTerminal>>
    /\ UNCHANGED <<cliVars, trVars>>

\* Lines 86-105, with a failed submission sent once more.
SubmitJobRetrying ==
    /\ pc = "submit"
    /\ \E reply \in SubmitReplies :
         LET out == SubmitOutcome(reply) IN
         /\ posts' = posts + 1
         /\ response' = reply
         /\ CASE out.k = "return" ->
                   IF reply.status_code # HTTP_OK /\ posts = 0
                   THEN UNCHANGED <<pc, result, audio_file, job_id, attempt>>
                   ELSE Leave(out.v) /\ UNCHANGED <<job_id, attempt>>
              [] out.k = "raise" -> Except(out.msg) /\ UNCHANGED <<job_id, attempt>>
              [] out.k = "continue" ->
                   /\ job_id' = out.v
                   /\ attempt' = 0
                   /\ pc' = "while"
                   /\ UNCHANGED <<result, audio_file>>
    /\ UNCHANGED <<audio_path, language, access_token, lang_code,
                   gets, slept, status_response, nonTerminal>>
    /\ UNCHANGED <<cliVars, trVars>>

\* Lines 86-105
SubmitJob ==
    /\ pc = "submit"
    /\ \E reply \in SubmitReplies :
         LET out == SubmitOutcome(reply) IN
         /\ posts' = posts + 1
         /\ response' = reply
         /\ CASE out.k = "return" -> Leave(out.v) /\ UNCHANGED <<job_id, attempt>>
              [] out.k = "raise" -> Except(out.msg) /\ UNCHANGED <<job_id, attempt>>
              [] out.k = "continue" ->
                   /\ job_id' = out.v
                   /\ attempt' = 0
                   /\ pc' = "while"
                   /\ UNCHANGED <<result, audio_file>>
    /\ UNCHANGED <<audio_path, language, access_token, lang_code,
                   gets, slept, status_response, nonTerminal>>
    /\ UNCHANGED <<cliVars, trVars>>

\* Lines 107-108 and 131
WhileTest ==
    /\ pc = "while"
    /\ IF LoopCondition(attempt)
       THEN /\ attempt' = attempt + 1
            /\ pc' = "sleep"
            /\ UNCHANGED <<audio_file, result>>
       ELSE /\ Leave(PyStr(TimedOut))
            /\ UNCHANGED attempt
    /\ UNCHANGED <<audio_path, language, access_token, lang_code, job_id,
                   posts, gets, slept, response, status_response, nonTerminal>>
    /\ UNCHANGED <<cliVars, trVars>>

\* Line 111, with a wait that grows with the attempt number.
SleepBackoff ==
    /\ pc = "sleep"
    /\ slept' = slept + SleepSeconds * attempt
    /\ pc' = "get"
    /\ UNCHANGED <<audio_path, language, access_token, lang_code, audio_file, job_id,
                   attempt, result, posts, gets, response, status_response, nonTerminal>>
    /\ UNCHANGED <<cliVars, trVars>>

\* Line 111
Sleep ==
    /\ pc = "sleep"
    /\ slept' = slept + SleepSeconds
    /\ pc' = "get"
    /\ UNCHANGED <<audio_path, language, access_token, lang_code, audio_file, job_id,
                   attempt, result, posts, gets, response, status_response, nonTerminal>>
    /\ UNCHANGED <<cliVars, trVars>>

\* A status reply that is a success and names neither terminal status.
NonTerminalReply(reply) ==
    /\ reply.t = "response"
    /\ reply.status_code = 200
    /\ LET data == ResponseJson(reply.text) IN
       /\ data.t = "dict"
       /\ DictGet(data, "status", PyNone) \notin {PyStr("completed"), PyStr("failed")}

\* Lines 114-129
CheckStatus ==
    /\ pc = "get"
    /\ \E reply \in StatusReplies :
         LET out == PollOutcome(reply) IN
         /\ gets' = gets + 1
         /\ status_response' = reply
         /\ nonTerminal' = IF NonTerminalReply(reply) THEN nonTerminal + 1 ELSE nonTerminal
         /\ CASE out.k = "return" -> Leave(out.v)
              [] out.k = "raise" -> Except(out.msg)
              [] out.k = "continue" ->
                   /\ pc' = "while"
                   /\ UNCHANGED <<result, audio_file>>
    /\ UNCHANGED <<audio_path, language, access_token, lang_code, job_id, attempt,
                   posts, slept, response>>
    /\ UNCHANGED <<cliVars, trVars>>

Next ==
    \/ CheckLanguage
    \/ CheckFile
    \/ OpenFile
    \/ SubmitJob
    \/ WhileTest
    \/ Sleep
    \/ CheckStatus

\* The interpreter runs the function to its end: a step that can be taken is
\* taken, given that every HTTP call returns or raises.
FairSpec == Init /\ [][Next]_vars /\ WF_vars(Next)

Spec == Init /\ [][Next]_vars

(***************************************************************************)
(* main of transcribe.py (lines 136-190): the credential is resolved, the  *)
(* audio path and the language are asked for and validated, and            *)
(* transcribe_audio is called.                                             *)
(***************************************************************************)
\* str.strip() on the lines the model reads; every other modelled line has no
\* surrounding white space.
StrStrip(s) ==
    CASE
      s = "   " -> ""
      [] s = " ENGLISH " -> "ENGLISH"
      [] s = " Hello " -> "Hello"
      [] s = " hello.mp3 " -> "hello.mp3"
      [] s = " prompt-token " -> "prompt-token"
      [] OTHER -> s

\* str.title() on the stripped language lines; every other modelled line is
\* already in title case.
StrTitle(s) ==
    CASE
      s = "ENGLISH" -> "English"
      [] s = "lUGBARA x" -> "Lugbara X"
      [] s = "luganda" -> "Luganda"
      [] s = "swahili" -> "Swahili"
      [] OTHER -> s

languages == <<"English", "Luganda", "Runyankole", "Ateso", "Lugbara", "Acholi">>

\* The value of an argument before main has bound it.
NoArg == "<unbound>"

EnvTokens == {PyNone, PyStr(""), PyStr("env-token")}

SystemExit(code) == [t |-> "SystemExit", code |-> code]

\* parse_args(): the value of --token (None when the flag is absent), or the
\* exit argparse makes on --help ("0") and on a usage error ("2").
FlagTokens ==
    {PyNone, PyStr(""), PyStr("flag-token"), SystemExit("0"), SystemExit("2")}

PromptLines == {"", "   ", " prompt-token ", "prompt-token"}

PathLines == {"hello.mp3", " hello.mp3 ", "missing.mp3", "locked.mp3", "long.mp3", ""}

LanguageLines == {"luganda", " ENGLISH ", "Acholi", "swahili", "lUGBARA x", ""}

\* len(AudioSegment.from_file(path)): the length of the audio in milliseconds.
AudioMillis(p) == IF p = "long.mp3" THEN 300001 ELSE 4000

\* Lines 14-27: False when the audio is longer than 5 minutes or cannot be read.
check_audio_length(p) ==
    IF p \notin ReadablePaths THEN FALSE
    ELSE ~(AudioMillis(p) > 5 * 60 * 1000)

InitMain ==
    /\ TranslatorIdle
    /\ env_token \in EnvTokens
    /\ flag_token \in FlagTokens
    /\ main_token = PyNone
    /\ consulted = <<>>
    /\ exit_status = "running"
    /\ printed = Unbound
    /\ pc = "main_env"
    /\ audio_path = NoArg
    /\ language = NoArg
    /\ access_token = NoArg
    /\ lang_code = Unbound
    /\ audio_file = "unopened"
    /\ job_id = Unbound
    /\ attempt = 0
    /\ result = Unbound
    /\ posts = 0
    /\ gets = 0
    /\ slept = 0
    /\ response = NoCall
    /\ status_response = NoCall
    /\ nonTerminal = 0

callVars == <<lang_code, audio_file, job_id, attempt, result, posts, gets, slept,
              response, status_response, nonTerminal>>

\* sys.exit(code)
Exit(code) ==
    /\ exit_status' = code
    /\ pc' = "exited"

\* Line 139
MainReadEnv ==
    /\ pc = "main_env"
    /\ main_token' = env_token
    /\ consulted' = Append(consulted, "env")
    /\ pc' = "main_flag"
    /\ UNCHANGED <<audio_path, language, access_token, callVars, trVars,
                   env_token, flag_token, exit_status, printed>>

\* Lines 142-146, with the command line parsed whatever the environment gave.
MainReadFlagAlways ==
    /\ pc = "main_flag"
    /\ IF flag_token.t = "SystemExit"
       THEN /\ Exit(flag_token.code)
            /\ consulted' = Append(consulted, "flag")
            /\ UNCHANGED main_token
       ELSE /\ main_token' = flag_token
            /\ consulted' = Append(consulted, "flag")
            /\ pc' = "main_prompt"
            /\ UNCHANGED exit_status
    /\ UNCHANGED <<audio_path, language, access_token, callVars, trVars,
                   env_token, flag_token, printed>>

\* Lines 142-146
MainReadFlag ==
    /\ pc = "main_flag"
    /\ IF Truthy(main_token)
       THEN /\ pc' = "main_prompt"
            /\ UNCHANGED <<main_token, consulted, exit_status>>
       ELSE IF flag_token.t = "SystemExit"
       THEN /\ Exit(flag_token.code)
            /\ consulted' = Append(consulted, "flag")
            /\ UNCHANGED main_token
       ELSE /\ main_token' = flag_token
            /\ consulted' = Append(consulted, "flag")
            /\ pc' = "main_prompt"
            /\ UNCHANGED exit_status
    /\ UNCHANGED <<audio_path, language, access_token, callVars, trVars,
                   env_token, flag_token, printed>>

\* Lines 149-154
MainPromptToken ==
    /\ pc = "main_prompt"
    /\ IF Truthy(main_token)
       THEN UNCHANGED <<main_token, consulted>>
       ELSE \E line \in PromptLines :
              /\ main_token' = PyStr(StrStrip(line))
              /\ consulted' = Append(consulted, "prompt")
    /\ pc' = "main_check_token"
    /\ UNCHANGED <<audio_path, language, access_token, callVars, trVars,
                   env_token, flag_token, exit_status, printed>>

\* Lines 156-158
MainCheckToken ==
    /\ pc = "main_check_token"
    /\ IF ~Truthy(main_token)
       THEN Exit("1")
       ELSE /\ pc' = "main_path"
            /\ UNCHANGED exit_status
    /\ UNCHANGED <<audio_path, language, access_token, callVars, trVars,
                   env_token, flag_token, main_token, consulted, printed>>

\* Lines 166-176, with the path handed on unchecked.
MainAskPathUnchecked ==
    /\ pc = "main_path"
    /\ \E line \in PathLines :
         /\ audio_path' = StrStrip(line)
         /\ pc' = "main_language"
         /\ UNCHANGED exit_status
    /\ UNCHANGED <<language, access_token, callVars, trVars,
                   env_token, flag_token, main_token, consulted, printed>>

\* Lines 166-176
MainAskPath ==
    /\ pc = "main_path"
    /\ \E line \in PathLines :
         /\ audio_path' = StrStrip(line)
         /\ IF ~OsPathExists(StrStrip(line)) THEN Exit("1")
            ELSE IF ~check_audio_length(StrStrip(line)) THEN Exit("1")
            ELSE /\ pc' = "main_language"
                 /\ UNCHANGED exit_status
    /\ UNCHANGED <<language, access_token, callVars, trVars,
                   env_token, flag_token, main_token, consulted, printed>>

\* Lines 179-187: the language is asked for and, when listed, transcribe_audio
\* is entered with main's path, language and token.
MainAskLanguage ==
    /\ pc = "main_language"
    /\ \E line \in LanguageLines :
         LET target == StrTitle(StrStrip(line)) IN
         /\ language' = target
         /\ IF \A i \in DOMAIN languages : languages[i] # target
            THEN /\ Exit("1")
                 /\ UNCHANGED access_token
            ELSE /\ access_token' = main_token.s
                 /\ pc' = "check_language"
                 /\ UNCHANGED exit_status
    /\ UNCHANGED <<audio_path, callVars, trVars,
                   env_token, flag_token, main_token, consulted, printed>>

\* Lines 189-190: the returned value is printed and main ends.
MainPrint ==
    /\ pc = "done"
    /\ exit_status = "running"
    /\ printed' = result
    /\ Exit("0")
    /\ UNCHANGED <<audio_path, language, access_token, callVars, trVars,
                   env_token, flag_token, main_token, consulted>>

NextMain ==
    \/ MainReadEnv
    \/ MainReadFlag
    \/ MainPromptToken
    \/ MainCheckToken
    \/ MainAskPath
    \/ MainAskLanguage
    \/ CheckLanguage
    \/ CheckFile
    \/ OpenFile
    \/ SubmitJob
    \/ WhileTest
    \/ Sleep
    \/ CheckStatus
    \/ MainPrint

SpecMain == InitMain /\ [][NextMain]_vars

(***************************************************************************)
(* main of translate.py: the reverse phrase tables are built from the      *)
(* authored English table, then phrases are looked up round by round.      *)
(* A phrase table is a Python dict: its entries <<key, value>> in          *)
(* insertion order.                                                        *)
(***************************************************************************)
tr_languages == <<"English", "Luganda", "Runyankole", "Ateso", "Lugbara", "Acholi">>

\* Lines 11-74: the table as authored.
AuthoredTranslations ==
    [English |->
       [Luganda |->
          <<<<"Hello", "Oli otya">>,
            <<"How are you?", "Oli otya?">>,
            <<"Good morning", "Wasuze otya">>,
            <<"Thank you", "Weebale">>,
            <<"Goodbye", "Weraba">>,
            <<"What is your name?", "Amanya go gwe ani?">>,
            <<"My name is", "Amanya gange">>,
            <<"I love you", "Nkwagala">>,
            <<"I am fine", "Ndi bulungi">>,
            <<"Welcome", "Tukusanyukidde">>>>,
        Runyankole |->
          <<<<"Hello", "Agandi">>,
            <<"How are you?", "Oli ota?">>,
            <<"Good morning", "Oraire ota">>,
            <<"Thank you", "Webale">>,
            <<"Goodbye", "Urabeho">>,
            <<"What is your name?", "Nibaiita oha?">>,
            <<"My name is", "Nibanyeta">>,
            <<"I love you", "Ninkukunda">>,
            <<"I am fine", "Ndi kurungi">>,
            <<"Welcome", "Tukushemereirwe">>>>,
        Ateso |->
          <<<<"Hello", "Yoga">>,
            <<"How are you?", "Ijok bo?">>,
            <<"Good morning", "Ejok akwar">>,
            <<"Thank you", "Eyalama">>,
            <<"Goodbye", "Awaio">>,
            <<"What is your name?", "Arai ekon bo?">>,
            <<"My name is", "Ekon ka">>,
            <<"I love you", "Amina jo">>,
            <<"I am fine", "Ajok">>,
            <<"Welcome", "Aiyalamikin">>>>,
        Lugbara |->
          <<<<"Hello", "Kzi">>,
            <<"How are you?", "Mi nga ya?">>,
            <<"Good morning", "Muke cua">>,
            <<"Thank you", "Awa'difo">>,
            <<"Goodbye", "Rua pee">>,
            <<"What is your name?", "Mi ru ngoni?">>,
            <<"My name is", "Ma ru">>,
            <<"I love you", "Ma mi nze">>,
            <<"I am fine", "Ma ovu woro">>,
            <<"Welcome", "Mu amvu">>>>,
        Acholi |->
          <<<<"Hello", "Kopango">>,
            <<"How are you?", "Itye nining?">>,
            <<"Good morning", "Iribedo maber">>,
            <<"Thank you", "Apwoyo">>,
            <<"Goodbye", "Orfoyo">>,
            <<"What is your name?", "Nyingi anga?">>,
            <<"My name is", "Nyinga en">>,
            <<"I love you", "Amari">>,
            <<"I am fine", "Atye maber">>,
            <<"Welcome", "Ibekwano">>>>]]

\* list(translations.keys()) at line 77 and list(translations[src_lang].keys())
\* at line 78: the keys in insertion order.
src_lang == "English"

TargetOrder == <<"Luganda", "Runyankole", "Ateso", "Lugbara", "Acholi">>

\* str.lower() on the phrases and the lines the model reads; every other
\* modelled string has no upper-case letter.
StrLower(s) ==
    CASE
      s = "Hello" -> "hello"
      [] s = "Oli otya" -> "oli otya"
      [] s = "How are you?" -> "how are you?"
      [] s = "Oli otya?" -> "oli otya?"
      [] s = "Good morning" -> "good morning"
      [] s = "Wasuze otya" -> "wasuze otya"
      [] s = "Thank you" -> "thank you"
      [] s = "Weebale" -> "weebale"
      [] s = "Goodbye" -> "goodbye"
      [] s = "Weraba" -> "weraba"
      [] s = "What is your name?" -> "what is your name?"
      [] s = "Amanya go gwe ani?" -> "amanya go gwe ani?"
      [] s = "My name is" -> "my name is"
      [] s = "Amanya gange" -> "amanya gange"
      [] s = "I love you" -> "i love you"
      [] s = "Nkwagala" -> "nkwagala"
      [] s = "I am fine" -> "i am fine"
      [] s = "Ndi bulungi" -> "ndi bulungi"
      [] s = "Welcome" -> "welcome"
      [] s = "Tukusanyukidde" -> "tukusanyukidde"
      [] s = "Agandi" -> "agandi"
      [] s = "Oli ota?" -> "oli ota?"
      [] s = "Oraire ota" -> "oraire ota"
      [] s = "Webale" -> "webale"
      [] s = "Urabeho" -> "urabeho"
      [] s = "Nibaiita oha?" -> "nibaiita oha?"
      [] s = "Nibanyeta" -> "nibanyeta"
      [] s = "Ninkukunda" -> "ninkukunda"
      [] s = "Ndi kurungi" -> "ndi kurungi"
      [] s = "Tukushemereirwe" -> "tukushemereirwe"
      [] s = "Yoga" -> "yoga"
      [] s = "Ijok bo?" -> "ijok bo?"
      [] s = "Ejok akwar" -> "ejok akwar"
      [] s = "Eyalama" -> "eyalama"
      [] s = "Awaio" -> "awaio"
      [] s = "Arai ekon bo?" -> "arai ekon bo?"
      [] s = "Ekon ka" -> "ekon ka"
      [] s = "Amina jo" -> "amina jo"
      [] s = "Ajok" -> "ajok"
      [] s = "Aiyalamikin" -> "aiyalamikin"
      [] s = "Kzi" -> "kzi"
      [] s = "Mi nga ya?" -> "mi nga ya?"
      [] s = "Muke cua" -> "muke cua"
      [] s = "Awa'difo" -> "awa'difo"
      [] s = "Rua pee" -> "rua pee"
      [] s = "Mi ru ngoni?" -> "mi ru ngoni?"
      [] s = "Ma ru" -> "ma ru"
      [] s = "Ma mi nze" -> "ma mi nze"
      [] s = "Ma ovu woro" -> "ma ovu woro"
      [] s = "Mu amvu" -> "mu amvu"
      [] s = "Kopango" -> "kopango"
      [] s = "Itye nining?" -> "itye nining?"
      [] s = "Iribedo maber" -> "iribedo maber"
      [] s = "Apwoyo" -> "apwoyo"
      [] s = "Orfoyo" -> "orfoyo"
      [] s = "Nyingi anga?" -> "nyingi anga?"
      [] s = "Nyinga en" -> "nyinga en"
      [] s = "Amari" -> "amari"
      [] s = "Atye maber" -> "atye maber"
      [] s = "Ibekwano" -> "ibekwano"
      [] s = "HELLO" -> "hello"
      [] s = "WEEBALE" -> "weebale"
      [] s = "good MORNING" -> "good morning"
      [] s = "Good night" -> "good night"
      [] s = "Y" -> "y"
      [] s = "YES" -> "yes"
      [] OTHER -> s

DictKeys(entries) == {entries[i][1] : i \in DOMAIN entries}

\* entries[key], for a key of the dict
DictValue(entries, key) ==
    entries[CHOOSE i \in DOMAIN entries : entries[i][1] = key][2]

\* entries[key] = value: a new key is appended, an old key keeps its place.
DictSetItem(entries, key, value) ==
    IF key \in DictKeys(entries)
    THEN [i \in DOMAIN entries |->
            IF entries[i][1] = key THEN <<key, value>> ELSE entries[i]]
    ELSE Append(entries, <<key, value>>)

TrLanguageLines ==
    {"English", "luganda", "Runyankole", "Ateso", "Lugbara", "Acholi", "swahili"}

TextLines ==
    {"Hello", "hello", " Hello ", "Oli otya", "Oli otya?", "WEEBALE", "Agandi",
     "Apwoyo", "Good night", ""}

AnswerLines == {"Y", "no"}

InvalidLanguage ==
    "Invalid language. Please choose one of: "
        \o "English, Luganda, Runyankole, Ateso, Lugbara, Acholi"

SameLanguage == "Source and target languages cannot be the same."

NotAvailable == "\nSorry, translation not available for this text."

HasTable(table, source, target) ==
    /\ source \in DOMAIN table
    /\ target \in DOMAIN table[source]

\* Lines 115-130, without the case-insensitive search.
LookupExactOnly(table, source, target, text) ==
    IF HasTable(table, source, target) /\ text \in DictKeys(table[source][target])
    THEN "\n" \o DictValue(table[source][target], text)
    ELSE NotAvailable

\* Lines 115-130: what a round prints for a text.
Lookup(table, source, target, text) ==
    IF HasTable(table, source, target) /\ text \in DictKeys(table[source][target])
    THEN "\n" \o DictValue(table[source][target], text)
    ELSE IF /\ HasTable(table, source, target)
            /\ \E i \in DOMAIN table[source][target] :
                  StrLower(table[source][target][i][1]) = StrLower(text)
    THEN LET entries == table[source][target]
             first == CHOOSE i \in DOMAIN entries :
                        /\ StrLower(entries[i][1]) = StrLower(text)
                        /\ \A j \in 1..(i - 1) : StrLower(entries[j][1]) # StrLower(text)
         IN "\n" \o entries[first][2]
    ELSE NotAvailable

\* transcribe.py is not running.
TranscribeIdle ==
    /\ CliIdle
    /\ pc = "idle"
    /\ audio_path = NoArg
    /\ language = NoArg
    /\ access_token = NoArg
    /\ lang_code = Unbound
    /\ audio_file = "unopened"
    /\ job_id = Unbound
    /\ attempt = 0
    /\ result = Unbound
    /\ posts = 0
    /\ gets = 0
    /\ slept = 0
    /\ response = NoCall
    /\ status_response = NoCall
    /\ nonTerminal = 0

InitTranslate ==
    /\ TranscribeIdle
    /\ translations = AuthoredTranslations
    /\ tpc = "build"
    /\ tgt_index = 1
    /\ phrase_index = 0
    /\ source_language = ""
    /\ target_language = ""
    /\ text_to_translate = ""
    /\ output = ""

transcribeVars == <<audio_path, language, access_token, pc, callVars, cliVars>>

\* Lines 78-83: the reverse table of the pair is created when it is missing.
EnsureReverseTable ==
    /\ tpc = "build"
    /\ phrase_index = 0
    /\ LET tgt_lang == TargetOrder[tgt_index]
           outer == IF tgt_lang \in DOMAIN translations
                    THEN translations[tgt_lang] ELSE <<>>
           inner == IF src_lang \in DOMAIN outer THEN outer[src_lang] ELSE <<>>
       IN translations' = (tgt_lang :> ((src_lang :> inner) @@ outer)) @@ translations
    /\ phrase_index' = 1
    /\ UNCHANGED <<tpc, tgt_index, source_language, target_language,
                   text_to_translate, output, transcribeVars>>

\* Lines 86-87, with the entry stored the way round it was authored.
AddReverseSwapped ==
    /\ tpc = "build"
    /\ phrase_index >= 1
    /\ LET tgt_lang == TargetOrder[tgt_index] IN
       /\ phrase_index <= Len(translations[src_lang][tgt_lang])
       /\ LET phrase == translations[src_lang][tgt_lang][phrase_index][1]
              translation == translations[src_lang][tgt_lang][phrase_index][2]
          IN translations' =
               [translations EXCEPT ![tgt_lang][src_lang] =
                    DictSetItem(@, phrase, translation)]
    /\ phrase_index' = phrase_index + 1
    /\ UNCHANGED <<tpc, tgt_index, source_language, target_language,
                   text_to_translate, output, transcribeVars>>

\* Lines 86-87: translations[tgt_lang][src_lang][translation] = phrase
AddReverse ==
    /\ tpc = "build"
    /\ phrase_index >= 1
    /\ LET tgt_lang == TargetOrder[tgt_index] IN
       /\ phrase_index <= Len(translations[src_lang][tgt_lang])
       /\ LET phrase == translations[src_lang][tgt_lang][phrase_index][1]
              translation == translations[src_lang][tgt_lang][phrase_index][2]
          IN translations' =
               [translations EXCEPT ![tgt_lang][src_lang] =
                    DictSetItem(@, translation, phrase)]
    /\ phrase_index' = phrase_index + 1
    /\ UNCHANGED <<tpc, tgt_index, source_language, target_language,
                   text_to_translate, output, transcribeVars>>

\* Lines 77-78 and 86: a loop ends; after the last target the rounds begin.
EndOfPhrases ==
    /\ tpc = "build"
    /\ phrase_index >= 1
    /\ phrase_index > Len(translations[src_lang][TargetOrder[tgt_index]])
    /\ IF tgt_index < Len(TargetOrder)
       THEN /\ tgt_index' = tgt_index + 1
            /\ phrase_index' = 0
            /\ UNCHANGED tpc
       ELSE /\ tpc' = "prompt"
            /\ UNCHANGED <<tgt_index, phrase_index>>
    /\ UNCHANGED <<translations, source_language, target_language,
                   text_to_translate, output, transcribeVars>>

IsLanguage(name) == \E i \in DOMAIN tr_languages : tr_languages[i] = name

\* Lines 93-98: the source language is not a listed one.
RoundInvalidSource ==
    /\ tpc = "prompt"
    /\ \E line \in TrLanguageLines :
         /\ ~IsLanguage(StrTitle(StrStrip(line)))
         /\ source_language' = StrTitle(StrStrip(line))
         /\ output' = InvalidLanguage
    /\ UNCHANGED <<translations, tpc, tgt_index, phrase_index, target_language,
                   text_to_translate, transcribeVars>>

\* Lines 93-109: the target language is not a listed one, or is the source.
RoundInvalidTarget ==
    /\ tpc = "prompt"
    /\ \E line \in TrLanguageLines, line2 \in TrLanguageLines :
         LET source == StrTitle(StrStrip(line))
             target == StrTitle(StrStrip(line2))
         IN /\ IsLanguage(source)
            /\ ~IsLanguage(target) \/ source = target
            /\ source_language' = source
            /\ target_language' = target
            /\ output' = IF ~IsLanguage(target) THEN InvalidLanguage ELSE SameLanguage
    /\ UNCHANGED <<translations, tpc, tgt_index, phrase_index,
                   text_to_translate, transcribeVars>>

\* Lines 93-135: a round that looks a text up and asks whether to go on.
RoundTranslate ==
    /\ tpc = "prompt"
    /\ \E line \in TrLanguageLines, line2 \in TrLanguageLines,
          line3 \in TextLines, answer \in AnswerLines :
         LET source == StrTitle(StrStrip(line))
             target == StrTitle(StrStrip(line2))
             text == StrStrip(line3)
         IN /\ IsLanguage(source)
            /\ IsLanguage(target)
            /\ source # target
            /\ source_language' = source
            /\ target_language' = target
            /\ text_to_translate' = text
            /\ output' = Lookup(translations, source, target, text)
            /\ tpc' = IF StrStrip(StrLower(answer)) \in {"yes", "y"}
                      THEN "prompt" ELSE "exit"
    /\ UNCHANGED <<translations, tgt_index, phrase_index, transcribeVars>>

NextTranslate ==
    \/ EnsureReverseTable
    \/ AddReverse
    \/ EndOfPhrases
    \/ RoundInvalidSource
    \/ RoundInvalidTarget
    \/ RoundTranslate

SpecTranslate == InitTranslate /\ [][NextTranslate]_vars

(***************************************************************************)
(* Properties of transcribe_audio.                                         *)
(***************************************************************************)

\* C1: for every language name outside the language-code mapping, whatever the
\* path and token, the call returns the 'language is not supported' error and
\* issues no network call: no submit POST and no status GET.
C1_UnsupportedLanguageIsLocal ==
    language \notin DOMAIN language_codes =>
        /\ posts = 0
        /\ gets = 0
        /\ pc \in {"check_language", "done"}
        /\ pc = "done" =>
             result = PyStr("Error: Language '" \o language \o "' is not supported.")

C1_Witness ==
    /\ language = "Swahili"
    /\ audio_path = "hello.mp3"
    /\ pc = "done"
    /\ result = PyStr("Error: Language 'Swahili' is not supported.")

\* C2: for every path that does not exist, with a supported language, the call
\* returns the 'file does not exist' error and issues no network call.
C2_MissingFileIsLocal ==
    (language \in DOMAIN language_codes /\ audio_path \notin ExistingPaths) =>
        /\ posts = 0
        /\ gets = 0
        /\ pc \in {"check_language", "check_file", "done"}
        /\ pc = "done" =>
             result = PyStr("Error: File '" \o audio_path \o "' does not exist.")

C2_Witness ==
    /\ language = "Luganda"
    /\ audio_path = "missing.mp3"
    /\ pc = "done"
    /\ result = PyStr("Error: File 'missing.mp3' does not exist.")

\* The submit reply is a success whose body parses to an object that carries no
\* job identifier: the id is absent, null or empty.
SubmitReplyLacksJobId ==
    /\ response.t = "response"
    /\ response.status_code = 200
    /\ LET data == ResponseJson(response.text) IN
       /\ data.t = "dict"
       /\ DictGet(data, "id", PyNone) \in {PyNone, PyStr("")}

\* The errors a non-200 submit response produces.
TransportFailureErrors ==
    {PyStr(ApiRequestFailed(c, b)) : c \in StatusCodes \ {200}, b \in SubmitBodies}

\* C3: a 200 submit reply without a job identifier makes the call return the
\* 'failed to get job ID' error, which is none of the transport-failure errors
\* of a non-200 submit response, and no status poll is ever issued.
C3_MissingJobIdIsDistinctError ==
    SubmitReplyLacksJobId =>
        /\ pc = "done"
        /\ result = PyStr("Error: Failed to get job ID from API response.")
        /\ result \notin TransportFailureErrors
        /\ gets = 0
        /\ slept = 0

C3_Witness ==
    /\ response = Response(200, "{}")
    /\ pc = "done"
    /\ posts = 1
    /\ result = PyStr("Error: Failed to get job ID from API response.")

\* C4: after a successful submission, when every status poll was a success with
\* a status that is neither "completed" nor "failed", exactly 30 status requests
\* were issued when the call ends and it returns the timeout message; no run
\* issues a 31st status request.
C4_ThirtyPollsThenTimeout ==
    /\ gets <= 30
    /\ (pc = "done" /\ job_id # Unbound /\ nonTerminal = gets) =>
          /\ gets = 30
          /\ result = PyStr("Error: Transcription timed out. Please try again later.")
    /\ nonTerminal = 30 => pc \in {"while", "done"}

C4_Witness ==
    /\ pc = "done"
    /\ nonTerminal = 30
    /\ gets = 30
    /\ status_response = Response(200, "{\"status\": \"processing\"}")
    /\ result = PyStr(TimedOut)

\* The latest status reply is a success whose body parses to an object.
StatusReplyIsObject ==
    /\ status_response.t = "response"
    /\ status_response.status_code = 200
    /\ ResponseJson(status_response.text).t = "dict"

StatusData == ResponseJson(status_response.text)

\* C5: after k < 30 non-terminal replies, a successful reply with status
\* "completed" and a present results.transcription value t ends the call with
\* exactly t, and that reply is the last status request issued.
C5_CompletedReturnsTranscription ==
    (/\ StatusReplyIsObject
     /\ DictGet(StatusData, "status", PyNone) = PyStr("completed")
     /\ DictGet(StatusData, "results", PyNone).t = "dict"
     /\ "transcription" \in DOMAIN StatusData.d.results.d) =>
        /\ pc = "done"
        /\ result = StatusData.d.results.d.transcription
        /\ nonTerminal < 30
        /\ gets = nonTerminal + 1

C5_Witness ==
    /\ pc = "done"
    /\ nonTerminal = 2
    /\ gets = 3
    /\ status_response =
         Response(200, "{\"status\": \"completed\", \"results\": {\"transcription\": \"hello\"}}")
    /\ result = PyStr("hello")

\* Every error value transcribe_audio can return for the modelled inputs.
ErrorValues ==
    {PyStr(UnsupportedLanguageError(l)) : l \in LanguageNames}
        \cup {PyStr(FileMissingError(p)) : p \in AudioPaths}
        \cup {PyStr(ApiRequestFailed(c, b)) : c \in StatusCodes, b \in SubmitBodies}
        \cup {PyStr(JobIdMissing), PyStr(TimedOut)}
        \cup {PyStr(PollError(b)) : b \in StatusBodies}
        \cup {PyStr(JobFailed(r)) :
                r \in {PyStr("Audio too long"), PyStr(""), PyNone, PyStr(UnknownError)}}
        \cup {PyStr(CaughtException(m)) :
                m \in NetworkErrors \cup {JSONDecodeError.msg}
                        \cup {AttributeErrorMsg(v) : v \in {PyNone, PyList}}
                        \cup {OpenError(p) : p \in AudioPaths}}

\* C6: a successful reply with status "completed" whose results structure is
\* missing, or present without a transcription field, ends the call with the
\* placeholder "No transcription available", which is not an error value.
C6_CompletedWithoutTextReturnsPlaceholder ==
    (/\ StatusReplyIsObject
     /\ DictGet(StatusData, "status", PyNone) = PyStr("completed")
     /\ \/ "results" \notin DOMAIN StatusData.d
        \/ /\ StatusData.d.results.t = "dict"
           /\ "transcription" \notin DOMAIN StatusData.d.results.d) =>
        /\ pc = "done"
        /\ result = PyStr("No transcription available")
        /\ result \notin ErrorValues

C6_Witness ==
    /\ pc = "done"
    /\ status_response = Response(200, "{\"status\": \"completed\"}")
    /\ result = PyStr("No transcription available")

C6_WitnessEmptyResults ==
    /\ pc = "done"
    /\ status_response = Response(200, "{\"status\": \"completed\", \"results\": {}}")
    /\ result = PyStr("No transcription available")

\* C7: a status request answered with a non-success HTTP status, on whichever
\* attempt, ends the call at once with the 'error checking job status' value;
\* the failed poll is the last status request and is not retried.
C7_PollErrorEndsPolling ==
    (status_response.t = "response" /\ status_response.status_code # 200) =>
        /\ pc = "done"
        /\ result = PyStr("Error checking job status: " \o status_response.text)
        /\ gets = nonTerminal + 1
        /\ gets = attempt

C7_Witness ==
    /\ pc = "done"
    /\ gets = 30
    /\ status_response = Response(404, "Bad Gateway")
    /\ result = PyStr("Error checking job status: Bad Gateway")

C7_WitnessFirstAttempt ==
    /\ pc = "done"
    /\ gets = 1
    /\ status_response.t = "response"
    /\ status_response.status_code = 500

\* C8: one invocation issues at most one submit POST, whether the submission
\* fails, a poll fails, the service reports failure or polling times out.
C8_AtMostOneSubmit ==
    /\ posts <= 1
    /\ posts = 1 => pc \in {"while", "sleep", "get", "done"}

C8_Witness ==
    /\ pc = "done"
    /\ posts = 1
    /\ response.t = "response"
    /\ response.status_code = 500

C8_WitnessTimeout ==
    /\ pc = "done"
    /\ posts = 1
    /\ gets = 30
    /\ result = PyStr(TimedOut)

\* C9: a successful reply with status "failed" ends the call with an error that
\* carries the service's error string verbatim when the field is present and
\* "Unknown error" when it is absent, and it is the last status request.
C9_FailedCarriesReason ==
    (/\ StatusReplyIsObject
     /\ DictGet(StatusData, "status", PyNone) = PyStr("failed")) =>
        /\ pc = "done"
        /\ gets = nonTerminal + 1
        /\ "error" \notin DOMAIN StatusData.d =>
             result = PyStr("Error: Transcription job failed. Reason: Unknown error")
        /\ ("error" \in DOMAIN StatusData.d /\ StatusData.d.error.t = "str") =>
             result = PyStr("Error: Transcription job failed. Reason: "
                              \o StatusData.d.error.s)

C9_Witness ==
    /\ pc = "done"
    /\ status_response = Response(200, "{\"status\": \"failed\", \"error\": \"Audio too long\"}")
    /\ result = PyStr("Error: Transcription job failed. Reason: Audio too long")

C9_WitnessUnknown ==
    /\ pc = "done"
    /\ status_response = Response(200, "{\"status\": \"failed\"}")
    /\ result = PyStr("Error: Transcription job failed. Reason: Unknown error")

\* The exception a reply leads to: raised by the call itself, or by reading a
\* success body that is no JSON, no JSON object, or a completed job whose
\* results are null.  "" when there is none.
ReplyException(reply) ==
    CASE reply.t = "raised" -> reply.msg
      [] reply.t = "response" /\ reply.status_code = 200
            /\ ResponseJson(reply.text).t = "JSONDecodeError" -> JSONDecodeError.msg
      [] reply.t = "response" /\ reply.status_code = 200
            /\ ResponseJson(reply.text).t = "list" -> "'list' object has no attribute 'get'"
      [] reply.t = "response" /\ reply.status_code = 200
            /\ ResponseJson(reply.text) = Completed(PyNone)
            -> "'NoneType' object has no attribute 'get'"
      [] OTHER -> ""

\* C10: when the submit POST, a status GET, or the reading of either reply body
\* raises, the call ends by returning 'Error during transcription' with the
\* cause, and the raising request is the last network request issued.
C10_ExceptionsAreReturned ==
    /\ ReplyException(response) # "" =>
          /\ pc = "done"
          /\ result = PyStr("Error during transcription: " \o ReplyException(response))
          /\ gets = 0
    /\ ReplyException(status_response) # "" =>
          /\ pc = "done"
          /\ result = PyStr("Error during transcription: "
                              \o ReplyException(status_response))
          /\ gets = nonTerminal + 1

C10_Witness ==
    /\ pc = "done"
    /\ gets = 4
    /\ status_response = Raised("Connection refused")
    /\ result = PyStr("Error during transcription: Connection refused")

C10_WitnessSubmit ==
    /\ pc = "done"
    /\ posts = 1
    /\ response = Response(200, "Unauthorized")
    /\ result = PyStr("Error during transcription: Expecting value: line 1 column 1 (char 0)")

\* C13: every status request is preceded by exactly one sleep of 5 time units
\* and every sleep is followed by a status request, so a run that never sees a
\* terminal status ends TimedOut after 30 x 5 = 150 units of sleep and every
\* other run ends after at most that much.
C13_OneSleepPerPoll ==
    /\ slept = 5 * (IF pc = "get" THEN gets + 1 ELSE gets)
    /\ slept <= 150
    /\ (pc = "done" /\ nonTerminal = 30) =>
          /\ slept = 150
          /\ result = PyStr("Error: Transcription timed out. Please try again later.")
    /\ pc = "done" => slept = 5 * gets

C13_Witness ==
    /\ pc = "done"
    /\ nonTerminal = 30
    /\ slept = 150
    /\ result = PyStr(TimedOut)

C13_WitnessEarly ==
    /\ pc = "done"
    /\ gets = 3
    /\ slept = 15
    /\ result = PyStr("hello")

\* The 3-letter code the service expects for a language name.
ExpectedCode(l) ==
    CASE l = "English" -> "eng"
      [] l = "Luganda" -> "lug"
      [] l = "Runyankole" -> "nyn"
      [] l = "Ateso" -> "teo"
      [] l = "Lugbara" -> "lgg"
      [] l = "Acholi" -> "ach"

EnumeratedLanguages ==
    {"English", "Luganda", "Runyankole", "Ateso", "Lugbara", "Acholi"}

\* C15 as stated: the mapping has no code for "English", so a call with
\* language "English" returns the unsupported-language error and issues no
\* network call, while every other enumerated language resolves to its code.
C15_EnglishHasNoCode ==
    /\ language = "English" =>
          /\ posts = 0
          /\ gets = 0
          /\ pc = "done" => result = PyStr("Error: Language 'English' is not supported.")
    /\ (language \in EnumeratedLanguages \ {"English"} /\ pc # "check_language") =>
          lang_code = PyStr(ExpectedCode(language))

\* C15, amended: the mapping has a code for every enumerated language, English
\* included ("eng"): once the language check has run, the call has resolved the
\* language to its 3-letter code and has not returned the unsupported-language
\* error.
C15_EveryEnumeratedLanguageHasCode ==
    (language \in EnumeratedLanguages /\ pc # "check_language") =>
        /\ lang_code = PyStr(ExpectedCode(language))
        /\ result # PyStr("Error: Language '" \o language \o "' is not supported.")

C15_Witness ==
    /\ language = "English"
    /\ lang_code = PyStr("eng")
    /\ posts = 1
    /\ response = Response(200, "{\"id\": \"job-1\"}")

\* C16: the upload handle is held only during the submission call: it is closed
\* before the first status poll is issued, and it is closed in every terminal
\* state.  The with block of line 70 encloses the polling loop, so the first
\* half fails.
C16_HandleClosedBeforePolling ==
    /\ pc \in {"sleep", "get"} => audio_file # "open"
    /\ gets > 0 => audio_file # "open"
    /\ pc = "done" => audio_file # "open"

\* What the code does guarantee about the handle: in every terminal state a
\* handle that was opened is closed; from the submission to the return, every
\* sleep and status poll included, it is open, and only the return closes it.
C16_HandleReleasedAtReturn ==
    /\ pc = "done" => audio_file \in {"unopened", "closed"}
    /\ (pc = "done" /\ posts = 1) => audio_file = "closed"
    /\ pc \in {"submit", "while", "sleep", "get"} => audio_file = "open"
    /\ audio_file = "closed" => pc = "done"

C16_Witness ==
    /\ pc = "done"
    /\ gets = 30
    /\ audio_file = "closed"
    /\ result = PyStr(TimedOut)

C16_WitnessOpenWhilePolling ==
    /\ pc = "get"
    /\ attempt = 2
    /\ audio_file = "open"

\* The submit POST was answered 200 with a non-empty job identifier.
SubmitAccepted ==
    /\ posts = 1
    /\ response.t = "response"
    /\ response.status_code = 200
    /\ ResponseJson(response.text).t = "dict"
    /\ DictGet(ResponseJson(response.text), "id", PyNone) \notin {PyNone, PyStr("")}

\* C18 as stated: a status GET is issued only after a submit POST answered 200
\* with a non-empty job identifier; in every state 0 <= attempt <= 30 and
\* attempt equals the number of status requests issued so far.
C18_AttemptEqualsRequestsIssued ==
    /\ (gets > 0 \/ pc \in {"while", "sleep", "get"}) => SubmitAccepted
    /\ 0 <= attempt
    /\ attempt <= 30
    /\ attempt = gets

\* C18, amended: a status GET is issued only after a submit POST answered 200
\* with a non-empty job identifier; in every state 0 <= attempt <= 30; attempt
\* equals the number of status requests issued at the loop test and after the
\* return, and is one more than that from its increment, through the sleep,
\* until the request of that attempt is issued.
C18_AttemptCountsRequests ==
    /\ (gets > 0 \/ pc \in {"while", "sleep", "get"}) => SubmitAccepted
    /\ 0 <= attempt
    /\ attempt <= 30
    /\ attempt = (IF pc \in {"sleep", "get"} THEN gets + 1 ELSE gets)

C18_Witness ==
    /\ pc = "sleep"
    /\ attempt = 30
    /\ gets = 29
    /\ SubmitAccepted

\* The terminal outcomes, each told from the replies received and the value
\* returned.
OutcomeIs(k) ==
    CASE k = "local validation error" ->
           /\ posts = 0
           /\ result \in {PyStr("Error: Language '" \o language \o "' is not supported."),
                          PyStr("Error: File '" \o audio_path \o "' does not exist.")}
      [] k = "submit transport error" ->
           /\ posts = 1 /\ gets = 0
           /\ response.t = "response" /\ response.status_code # 200
           /\ result = PyStr("Error: API request failed with status code "
                               \o ToString(response.status_code) \o ": " \o response.text)
      [] k = "job id missing" ->
           /\ gets = 0
           /\ SubmitReplyLacksJobId
           /\ result = PyStr("Error: Failed to get job ID from API response.")
      [] k = "Completed" ->
           /\ StatusReplyIsObject
           /\ DictGet(StatusData, "status", PyNone) = PyStr("completed")
           /\ DictGet(StatusData, "results", EmptyDict).t = "dict"
           /\ result = DictGet(DictGet(StatusData, "results", EmptyDict), "transcription",
                               PyStr("No transcription available"))
      [] k = "Failed" ->
           /\ StatusReplyIsObject
           /\ DictGet(StatusData, "status", PyNone) = PyStr("failed")
           /\ result \in {PyStr("Error: Transcription job failed. Reason: " \o r) :
                            r \in {"Audio too long", "", "None", "Unknown error"}}
      [] k = "PollError" ->
           /\ status_response.t = "response" /\ status_response.status_code # 200
           /\ result = PyStr("Error checking job status: " \o status_response.text)
      [] k = "TimedOut" ->
           /\ gets = 30 /\ nonTerminal = 30
           /\ result = PyStr("Error: Transcription timed out. Please try again later.")
      [] k = "caught exception" ->
           \E cause \in {ReplyException(response), ReplyException(status_response)}
                           \cup (IF posts = 0 THEN {OpenError(audio_path)} ELSE {}) :
               /\ cause # ""
               /\ result = PyStr("Error during transcription: " \o cause)

OutcomeKinds ==
    {"local validation error", "submit transport error", "job id missing",
     "Completed", "Failed", "PollError", "TimedOut", "caught exception"}

\* C19: given that every HTTP call returns or raises, every invocation ends in
\* exactly one terminal outcome, and once it has ended no further request is
\* issued and the outcome does not change.
C19_TerminatesInOneOutcome ==
    /\ <>(pc = "done")
    /\ [](pc = "done" => Cardinality({k \in OutcomeKinds : OutcomeIs(k)}) = 1)
    /\ [][pc = "done" => UNCHANGED <<pc, result, posts, gets>>]_vars

C19_Witness ==
    /\ pc = "done"
    /\ OutcomeIs("Completed")
    /\ gets = 30

C19_WitnessException ==
    /\ pc = "done"
    /\ OutcomeIs("caught exception")
    /\ gets = 0

(***************************************************************************)
(* Properties of main of transcribe.py.                                    *)
(***************************************************************************)
NoToken == {PyNone, PyStr("")}

CalledTranscribeAudio == access_token # NoArg

\* C14: the credential sources are read in the order environment variable,
\* command-line flag, prompt; a later source is read only when every earlier one
\* gave no non-empty token; the first non-empty token is the one used; and when
\* all three give none the process exits with a non-zero status before asking
\* for a file and before any network call.
C14_CredentialResolutionOrder ==
    /\ consulted \in {<<>>, <<"env">>, <<"env", "flag">>, <<"env", "flag", "prompt">>}
    /\ Len(consulted) >= 2 => env_token \in NoToken
    /\ Len(consulted) = 3 => flag_token \in NoToken
    /\ CalledTranscribeAudio =>
          access_token = (IF env_token \notin NoToken THEN "env-token"
                          ELSE IF flag_token \notin NoToken THEN "flag-token"
                          ELSE "prompt-token")
    /\ (pc \notin {"main_env", "main_flag", "main_prompt", "main_check_token"}
          /\ env_token \in NoToken /\ flag_token \in NoToken
          /\ main_token = PyStr("")) =>
          /\ consulted = <<"env", "flag", "prompt">>
          /\ exit_status = "1"
          /\ audio_path = NoArg
          /\ ~CalledTranscribeAudio
          /\ posts = 0
          /\ gets = 0

C14_Witness ==
    /\ env_token = PyStr("")
    /\ flag_token = PyStr("flag-token")
    /\ consulted = <<"env", "flag">>
    /\ access_token = "flag-token"
    /\ posts = 1

C14_WitnessNoToken ==
    /\ consulted = <<"env", "flag", "prompt">>
    /\ main_token = PyStr("")
    /\ exit_status = "1"

C14_WitnessPrompt ==
    /\ consulted = <<"env", "flag", "prompt">>
    /\ access_token = "prompt-token"
    /\ gets = 1

\* C17: when the entered audio path does not exist, or the entered language
\* name in title case is not a listed language, the process exits with a
\* non-zero status and transcribe_audio is never called: no network request is
\* issued.
C17_InvalidInputExitsBeforeCall ==
    (\/ audio_path \in {"missing.mp3", ""}
     \/ language \in {"Swahili", "Lugbara X", ""}) =>
        /\ pc = "exited"
        /\ exit_status = "1"
        /\ ~CalledTranscribeAudio
        /\ result = Unbound
        /\ posts = 0
        /\ gets = 0

C17_Witness ==
    /\ audio_path = "hello.mp3"
    /\ language = "Swahili"
    /\ exit_status = "1"

C17_WitnessPath ==
    /\ audio_path = "missing.mp3"
    /\ exit_status = "1"

(***************************************************************************)
(* Properties of the phrase translator.                                    *)
(***************************************************************************)
ReverseBuilt == tpc \in {"prompt", "exit"}

\* C11: once the reverse tables are built, for every authored entry
\* (src, tgt, phrase) -> translation the lookup with source tgt, target src and
\* text translation gives exactly phrase: no reverse entry was overwritten by
\* another authored entry with the same translation.
C11_ReverseLookupReturnsPhrase ==
    ReverseBuilt =>
        \A tgt \in DOMAIN AuthoredTranslations.English :
            /\ Len(translations[tgt]["English"]) = Len(AuthoredTranslations.English[tgt])
            /\ \A i \in DOMAIN AuthoredTranslations.English[tgt] :
                 LET phrase == AuthoredTranslations.English[tgt][i][1]
                     translation == AuthoredTranslations.English[tgt][i][2]
                 IN /\ Lookup(translations, tgt, "English", translation) = "\n" \o phrase
                    /\ (/\ source_language = tgt
                        /\ target_language = "English"
                        /\ text_to_translate = translation) => output = "\n" \o phrase

C11_Witness ==
    /\ ReverseBuilt
    /\ source_language = "Luganda"
    /\ target_language = "English"
    /\ text_to_translate = "Oli otya?"
    /\ output = "\nHow are you?"

C11_WitnessAcholi ==
    /\ source_language = "Acholi"
    /\ target_language = "English"
    /\ text_to_translate = "Apwoyo"
    /\ output = "\nThank you"

\* The latest round looked a text up on a language pair that has a table.
LookedUpInTable ==
    /\ ReverseBuilt
    /\ IsLanguage(source_language)
    /\ IsLanguage(target_language)
    /\ source_language # target_language
    /\ HasTable(translations, source_language, target_language)

\* C12: on a language pair that has a table, a text equal to a key verbatim
\* gives that key's translation whatever other key matches it ignoring case; a
\* key matching ignoring case is used only when no key is equal verbatim; and
\* when neither exists the 'translation not available' message is printed.
C12_ExactMatchBeforeCaseInsensitive ==
    LookedUpInTable =>
        LET entries == translations[source_language][target_language]
            exact == {i \in DOMAIN entries : entries[i][1] = text_to_translate}
            loose == {i \in DOMAIN entries :
                        StrLower(entries[i][1]) = StrLower(text_to_translate)}
        IN /\ exact # {} => \A i \in exact : output = "\n" \o entries[i][2]
           /\ (exact = {} /\ loose # {}) =>
                 \E i \in loose : output = "\n" \o entries[i][2]
           /\ (exact = {} /\ loose = {}) =>
                 output = "\nSorry, translation not available for this text."

C12_Witness ==
    /\ LookedUpInTable
    /\ source_language = "English"
    /\ target_language = "Luganda"
    /\ text_to_translate = "hello"
    /\ output = "\nOli otya"

C12_WitnessExact ==
    /\ LookedUpInTable
    /\ source_language = "Luganda"
    /\ target_language = "English"
    /\ text_to_translate = "Oli otya"
    /\ output = "\nHello"

C12_WitnessNotAvailable ==
    /\ LookedUpInTable
    /\ source_language = "English"
    /\ target_language = "Ateso"
    /\ text_to_translate = "Good night"
    /\ output = "\nSorry, translation not available for this text."

====
